---- MODULE Spec2Model ----
(***************************************************************************)
(* Model of the overlay window program (src/main.rs): the state captured   *)
(* by the event-loop closure, the winit event loop that drives it, and the *)
(* OS window that produces the events.                                     *)
(*                                                                         *)
(* Scale factors are fixed-point numbers in halves (2 = 1.0, 3 = 1.5,      *)
(* 4 = 2.0).  A logical length is the exact rational <<num, den>>; on the  *)
(* bounded domain used here the f64 arithmetic of winit's dpi conversions  *)
(* is exact, so the only lossy step is the `as u32` cast.                  *)
(***************************************************************************)
EXTENDS Integers, Sequences, FiniteSets, TLC

\* ---------------------------------------------------------------- bounds
MaxDim == 2          \* physical window widths range over 1..MaxDim
MaxScale == 3        \* scale factors range over 2..MaxScale (in halves)
MaxQueue == 1        \* events pending in one batch
MaxSteps == 4        \* callback invocations in one run
MaxTime == 2         \* readings of the monotonic clock range over 0..MaxTime

\* ------------------------------------------------------- program constants
\* cfg!(feature = "metal-auto-capture"): off in the default build
MetalAutoCapture == FALSE

Dims == 1..MaxDim
\* Windows are one pixel taller than wide, so that width and height differ.
PhysicalSizes == {[width |-> w, height |-> w + 1] : w \in Dims}
Scales == 2..MaxScale
Times == 0..MaxTime

\* --------------------------------------------------------- dpi conversions
\* PhysicalSize::to_logical(dpi): physical / dpi, as an exact rational.
ToLogical(p, dpi) ==
    [width |-> <<2 * p.width, dpi>>, height |-> <<2 * p.height, dpi>>]

\* LogicalSize::to_physical(dpi): logical * dpi, as an exact rational.
ToPhysical(l, dpi) ==
    [width  |-> <<l.width[1] * dpi, l.width[2] * 2>>,
     height |-> <<l.height[1] * dpi, l.height[2] * 2>>]

\* `x as u32` on an f64: truncation toward zero, negative values become 0.
\* (Sizes here stay far below u32::MAX, where the cast would saturate.)
AsU32(x) ==
    LET t == x[1] \div x[2]
    IN  IF t < 0 THEN 0 ELSE t

InitialSwapChainDescriptor_Swapped(size) ==
    [usage        |-> "OUTPUT_ATTACHMENT",
     format       |-> "Bgra8Unorm",
     width        |-> AsU32(size.height),
     height       |-> AsU32(size.width),
     present_mode |-> "NoVsync"]

\* Lines 59-65: the descriptor built before the loop starts.
InitialSwapChainDescriptor(size) ==
    [usage        |-> "OUTPUT_ATTACHMENT",
     format       |-> "Bgra8Unorm",
     width        |-> AsU32(size.width),
     height       |-> AsU32(size.height),
     present_mode |-> "NoVsync"]

SwapChainDescriptor_Vsync(size) ==
    [usage        |-> "OUTPUT_ATTACHMENT",
     format       |-> "Bgra8Unorm",
     width        |-> AsU32(size.width),
     height       |-> AsU32(size.height),
     present_mode |-> "Vsync"]

\* Lines 127-133: the descriptor built by the Resized arm.
SwapChainDescriptor(size) ==
    [usage        |-> "OUTPUT_ATTACHMENT",
     format       |-> "Bgra8Unorm",
     width        |-> AsU32(size.width),
     height       |-> AsU32(size.height),
     present_mode |-> "NoVsync"]

\* device.create_swap_chain(&surface, &sc_desc): the swap chain remembers the
\* descriptor it was created from; gen is the number of resize events the
\* loop had observed when it was created.
CreateSwapChain(desc, gen) == [desc |-> desc, gen |-> gen]

\* ------------------------------------------------------------------ events
NoSize == [width |-> 0, height |-> 0]

\* One record shape for all events.  `repeat` and `phys` are not visible to
\* the program (KeyboardInput has no repeat field and the closure ignores the
\* payload of Resized); they record what the OS meant by the event.
Ev(kind, state, key, shift, repeat, phys) ==
    [kind |-> kind, state |-> state, key |-> key, shift |-> shift,
     repeat |-> repeat, phys |-> phys]

ResizedEv(p)       == Ev("Resized", "-", "-", FALSE, FALSE, p)
KeyEv(st, k, s, r) == Ev("Key", st, k, s, r, NoSize)
CloseEv            == Ev("CloseRequested", "-", "-", FALSE, FALSE, NoSize)
OtherEv            == Ev("Other", "-", "-", FALSE, FALSE, NoSize)
EventsClearedEv    == Ev("EventsCleared", "-", "-", FALSE, FALSE, NoSize)
NoEv               == Ev("none", "-", "-", FALSE, FALSE, NoSize)

IsHotkey_IgnoresShift(ev) ==
    /\ ev.kind = "Key"
    /\ ev.state = "Pressed"
    /\ ev.key = "Escape"

\* The pattern of the second match arm: DeviceEvent::Key with
\* state: Pressed, virtual_keycode: Some(Escape), modifiers.shift: true.
IsHotkey(ev) ==
    /\ ev.kind = "Key"
    /\ ev.state = "Pressed"
    /\ ev.key = "Escape"
    /\ ev.shift

VARIABLES
    winPhysical,        \* OS window: current physical inner size
    winScale,           \* OS window: current scale factor
    hotkeyHeld,         \* OS keyboard: Shift+Escape is physically down
    queue,              \* events the event loop has not delivered yet
    hidpi_factor,       \* closure: scale factor captured at startup
    size,               \* closure: tracked physical size (f64 pair)
    sc_desc,            \* closure: swap chain descriptor
    swap_chain,         \* closure: live swap chain
    overlay_clickable,  \* closure: overlay mode flag
    last_frame,         \* closure: Instant of the previous frame
    control_flow,       \* event loop: the ControlFlow it owns
    loopState,          \* "running", "exited" or "panicked"
    clock,              \* last reading of the monotonic clock
    steps,              \* callback invocations so far
    iter,               \* loop iterations (event batches) completed
    presses,            \* hotkey key-down events handled
    togglesSinceEdge,   \* mode changes since the last press edge was handled
    adapterCalls,       \* calls made to the os click-through functions
    resizesSeen,        \* Resized events handled
    lastResize,         \* physical size announced by the last Resized handled
    closeIter,          \* iteration in which CloseRequested was handled, or -1
    closeStep,          \* value of steps once CloseRequested was handled, or -1
    frames,             \* frame steps started
    frame,              \* record of the last frame step
    lastEvent,          \* the event the closure was last called with
    forwarded,          \* calls of platform.handle_event so far
    lastForwarded,      \* the event last passed to platform.handle_event
    startup,            \* the startup call that failed, or "none"
    osClickThrough      \* OS window: input passes through the window

vars == <<winPhysical, winScale, hotkeyHeld, queue, hidpi_factor, size,
          sc_desc, swap_chain, overlay_clickable, last_frame, control_flow,
          loopState, clock, steps, iter, presses, togglesSinceEdge,
          adapterCalls, resizesSeen, lastResize, closeIter, closeStep, frames,
          frame, lastEvent, forwarded, lastForwarded, startup,
          osClickThrough>>

osVars      == <<winPhysical, winScale, hotkeyHeld>>
surfaceVars == <<size, sc_desc, swap_chain, resizesSeen, lastResize>>
toggleVars  == <<overlay_clickable, presses, togglesSinceEdge, adapterCalls,
                 osClickThrough>>
startVars   == <<startup, hidpi_factor>>
frameVars   == <<last_frame, clock, frames, frame>>
closeVars   == <<closeIter, closeStep>>
forwardVars == <<lastEvent, forwarded, lastForwarded>>

\* window.inner_size(): the logical size the OS window has now.
InnerSize == ToLogical(winPhysical, winScale)

NoFrame ==
    [iter |-> -1, log |-> <<>>, failedAt |-> "none", now |-> 0, prev |-> 0,
     delta |-> 0, swapGen |-> 0, resizes |-> 0, upToDate |-> TRUE]

\* Lines 26-56 in program order: the startup calls that can fail.
StartupCalls == {"window", "overlay", "surface", "adapter", "device"}

\* os::make_window_overlay(&window) reports a failure in its result
\* (make_overlay(window) -> Result<(), Error>).
MakeWindowOverlay(fails) == IF fails THEN "Err" ELSE "Ok"

\* What make_window_overlay leaves the window as: input-transparent when it
\* succeeded, the interactive window WindowBuilder built when it did not.
OverlayClickThrough(result) == result = "Ok"

\* What make_window_overlay_clickthrough / _clickable leave the window as.
ToggleClickThrough(call) == call = "make_window_overlay_clickthrough"

\* Lines 26-56: build(..).unwrap() and Adapter::request(..).unwrap() panic on
\* failure, Surface::create and request_device return no Result and fail by
\* panicking; line 31 drops what make_window_overlay returns.
AfterStartup(fail) ==
    IF fail \in {"window", "surface", "adapter", "device"}
    THEN "panicked" ELSE "running"

\* State when event_loop.run is entered (lines 22-111), or when a startup
\* call has ended the process.
InitWith(fail) ==
    /\ startup = fail
    /\ osClickThrough = OverlayClickThrough(MakeWindowOverlay(fail = "overlay"))
    /\ winPhysical \in PhysicalSizes
    /\ winScale \in Scales
    /\ hotkeyHeld = FALSE
    /\ queue = <<>>
    /\ hidpi_factor = winScale
    /\ size = ToPhysical(InnerSize, hidpi_factor)
    /\ sc_desc = InitialSwapChainDescriptor(size)
    /\ swap_chain = CreateSwapChain(sc_desc, 0)
    /\ overlay_clickable = FALSE
    /\ clock = 0
    /\ last_frame = clock
    /\ control_flow = "Poll"
    /\ loopState = AfterStartup(fail)
    /\ steps = 0
    /\ iter = 0
    /\ presses = 0
    /\ togglesSinceEdge = 0
    /\ adapterCalls = <<>>
    /\ resizesSeen = 0
    /\ lastResize = NoSize
    /\ closeIter = -1
    /\ closeStep = -1
    /\ frames = 0
    /\ frame = NoFrame
    /\ lastEvent = NoEv
    /\ forwarded = 0
    /\ lastForwarded = NoEv

\* Every startup call succeeded.
Init == InitWith("none")

\* Any one startup call may have failed.
InitStartup == \E fail \in StartupCalls \cup {"none"} : InitWith(fail)

\* ------------------------------------------------------------- OS window
\* The OS produces events while the loop runs; an event waits in the queue
\* until the event loop delivers it to the closure.  A run is cut off after
\* MaxSteps callbacks: events are produced only while the run has room to
\* deliver them and the EventsCleared that ends their batch.
CanPost ==
    /\ loopState = "running"
    /\ Len(queue) < MaxQueue
    /\ steps + Len(queue) + 1 < MaxSteps

Post(ev) == queue' = Append(queue, ev)

programVars == <<hidpi_factor, size, sc_desc, swap_chain, overlay_clickable,
                 last_frame, control_flow, loopState, clock, steps, iter,
                 presses, togglesSinceEdge, adapterCalls, resizesSeen,
                 lastResize, closeIter, closeStep, frames, frame, lastEvent,
                 forwarded, lastForwarded, startup, osClickThrough>>

\* The window is resized to physical size p: WindowEvent::Resized.
OsResize ==
    /\ CanPost
    /\ \E p \in PhysicalSizes :
          /\ p # winPhysical
          /\ winPhysical' = p
          /\ Post(ResizedEv(p))
    /\ UNCHANGED <<winScale, hotkeyHeld>>
    /\ UNCHANGED programVars

\* The window moves to a display with another scale factor:
\* WindowEvent::HiDpiFactorChanged, which the closure does not match.
OsScaleChange ==
    /\ CanPost
    /\ \E s \in Scales :
          /\ s # winScale
          /\ winScale' = s
    /\ Post(OtherEv)
    /\ UNCHANGED <<winPhysical, hotkeyHeld>>
    /\ UNCHANGED programVars

\* Shift+Escape goes down: the press edge.
OsHotkeyDown ==
    /\ CanPost
    /\ ~hotkeyHeld
    /\ hotkeyHeld' = TRUE
    /\ Post(KeyEv("Pressed", "Escape", TRUE, FALSE))
    /\ UNCHANGED <<winPhysical, winScale>>
    /\ UNCHANGED programVars

\* Shift+Escape stays down: the device reports another key-down.
OsHotkeyRepeat ==
    /\ CanPost
    /\ hotkeyHeld
    /\ Post(KeyEv("Pressed", "Escape", TRUE, TRUE))
    /\ UNCHANGED osVars
    /\ UNCHANGED programVars

\* Escape is released.
OsHotkeyUp ==
    /\ CanPost
    /\ hotkeyHeld
    /\ hotkeyHeld' = FALSE
    /\ Post(KeyEv("Released", "Escape", TRUE, FALSE))
    /\ UNCHANGED <<winPhysical, winScale>>
    /\ UNCHANGED programVars

\* Key-downs that are not the hotkey: Escape without Shift, Shift+A.
OtherKeys ==
    {KeyEv("Pressed", "Escape", FALSE, FALSE), KeyEv("Pressed", "A", TRUE, FALSE)}

OsOtherInput ==
    /\ CanPost
    /\ \E ev \in OtherKeys \cup {OtherEv} : Post(ev)
    /\ UNCHANGED osVars
    /\ UNCHANGED programVars

\* The user asks to close the window: WindowEvent::CloseRequested.
OsClose ==
    /\ CanPost
    /\ Post(CloseEv)
    /\ UNCHANGED osVars
    /\ UNCHANGED programVars

\* -------------------------------------------------------------- event loop
\* Lines 115-119: the value the closure stores in *control_flow on entry.
TopControlFlow == IF MetalAutoCapture THEN "Exit" ELSE "Poll"

\* winit's EventLoop::run makes ControlFlow::Exit sticky: once the loop's
\* control flow is Exit the closure is handed a dummy to write to.
StickyExit(cf, written) == IF cf = "Exit" THEN "Exit" ELSE written

\* The loop delivers the oldest pending event to the closure.
Delivering(kinds) ==
    /\ loopState = "running"
    /\ steps < MaxSteps
    /\ queue # <<>>
    /\ Head(queue).kind \in kinds

\* Line 212: platform.handle_event(imgui.io_mut(), &window, &event)
HandleEvent(ev) ==
    /\ forwarded' = forwarded + 1
    /\ lastForwarded' = ev

\* The arm is done: the event is forwarded and the closure returns.
Delivered ==
    /\ queue' = Tail(queue)
    /\ steps' = steps + 1
    /\ lastEvent' = Head(queue)
    /\ HandleEvent(Head(queue))

RecreateSwapChain_Keep(old, desc, gen) == old

\* Line 135: swap_chain = device.create_swap_chain(&surface, &sc_desc)
RecreateSwapChain(old, desc, gen) == CreateSwapChain(desc, gen)

\* Lines 121-136: Event::WindowEvent { event: WindowEvent::Resized(_), .. }
HandleResized ==
    /\ Delivering({"Resized"})
    /\ size' = ToPhysical(InnerSize, hidpi_factor)
    /\ sc_desc' = SwapChainDescriptor(size')
    /\ resizesSeen' = resizesSeen + 1
    /\ swap_chain' = RecreateSwapChain(swap_chain, sc_desc', resizesSeen')
    /\ lastResize' = Head(queue).phys
    /\ control_flow' = StickyExit(control_flow, TopControlFlow)
    /\ Delivered
    /\ UNCHANGED <<osVars, startVars, toggleVars, frameVars, loopState,
                   iter, closeVars>>

AdapterCall_Swapped(clickable) ==
    IF clickable THEN "make_window_overlay_clickable"
                 ELSE "make_window_overlay_clickthrough"

\* Lines 147-151: the os function called for the current mode.
AdapterCall(clickable) ==
    IF clickable THEN "make_window_overlay_clickthrough"
                 ELSE "make_window_overlay_clickable"

Toggle_SetOnly(clickable) == TRUE

\* Line 152: overlay_clickable = !overlay_clickable
Toggle(clickable) == ~clickable

\* Lines 137-153: the Shift+Escape key-down arm.
HandleHotkey ==
    /\ Delivering({"Key"})
    /\ IsHotkey(Head(queue))
    /\ adapterCalls' = Append(adapterCalls, AdapterCall(overlay_clickable))
    /\ osClickThrough' = ToggleClickThrough(AdapterCall(overlay_clickable))
    /\ overlay_clickable' = Toggle(overlay_clickable)
    /\ presses' = presses + 1
    /\ togglesSinceEdge' =
          IF Head(queue).repeat THEN togglesSinceEdge + 1 ELSE 1
    /\ control_flow' = StickyExit(control_flow, TopControlFlow)
    /\ Delivered
    /\ UNCHANGED <<osVars, startVars, surfaceVars, frameVars, loopState,
                   iter, closeVars>>

CloseControlFlow_Poll == "Poll"

\* Line 158: *control_flow = ControlFlow::Exit
CloseControlFlow == "Exit"

\* Lines 154-159: Event::WindowEvent { event: WindowEvent::CloseRequested, .. }
HandleClose ==
    /\ Delivering({"CloseRequested"})
    /\ control_flow' = StickyExit(control_flow, CloseControlFlow)
    /\ closeIter' = IF closeIter = -1 THEN iter ELSE closeIter
    /\ closeStep' = IF closeStep = -1 THEN steps + 1 ELSE closeStep
    /\ Delivered
    /\ UNCHANGED <<osVars, startVars, surfaceVars, toggleVars, frameVars,
                   loopState, iter>>

\* Line 209: _ => ()
HandleOther ==
    /\ Delivering({"Key", "Other"})
    /\ ~IsHotkey(Head(queue))
    /\ togglesSinceEdge' =
          IF Head(queue) = KeyEv("Released", "Escape", TRUE, FALSE)
          THEN 0 ELSE togglesSinceEdge
    /\ control_flow' = StickyExit(control_flow, TopControlFlow)
    /\ Delivered
    /\ UNCHANGED <<osVars, startVars, surfaceVars, overlay_clickable,
                   presses, adapterCalls, osClickThrough, frameVars,
                   loopState, iter,
                   closeVars>>

\* ------------------------------------------------------------- frame step
FrameSteps_BuildAfterSubmit ==
    <<"tick", "get_next_texture", "prepare_frame", "prepare_render",
      "render", "submit", "build_ui">>

\* Lines 161-207 in program order.
FrameSteps ==
    <<"tick", "get_next_texture", "prepare_frame", "build_ui",
      "prepare_render", "render", "submit">>

\* The calls of the frame step that can fail.
FrameFailures == {"get_next_texture", "prepare_frame", "render"}

IndexOf(seq, x) == CHOOSE i \in 1..Len(seq) : seq[i] = x

FrameLog_IgnoreErrors(fail) == FrameSteps

\* The steps the frame step reaches: all of them, or, when a call fails, the
\* steps up to that call (get_next_texture returns no Result and the two
\* .expect() calls panic, so nothing after the failing call runs).
FrameLog(fail) ==
    IF fail = "none" THEN FrameSteps
    ELSE SubSeq(FrameSteps, 1, IndexOf(FrameSteps, fail))

\* A failing call unwinds out of the closure and ends the process.
AfterFrame(fail, cf) ==
    IF fail # "none" THEN "panicked"
    ELSE IF cf = "Exit" THEN "exited" ELSE "running"

FrameKeeps_Rebuilds ==
    /\ size' = ToPhysical(InnerSize, hidpi_factor)
    /\ sc_desc' = SwapChainDescriptor(size')
    /\ UNCHANGED <<startVars, swap_chain, resizesSeen, lastResize,
                   toggleVars, closeVars>>

\* Lines 160-208: the closure state the EventsCleared arm does not assign.
FrameKeeps ==
    UNCHANGED <<startVars, surfaceVars, toggleVars, closeVars>>

LastFrameUpdate_Reset(old, now) == 0

LastFrameUpdate_Forgotten(old, now) == old

\* Line 164: last_frame = now
LastFrameUpdate(old, now) == now

\* Lines 160-208: Event::EventsCleared, delivered once the batch is drained;
\* after it the event loop acts on the control flow.
EventsCleared ==
    /\ loopState = "running"
    /\ steps < MaxSteps
    /\ queue = <<>>
    /\ \E now \in clock..MaxTime, fail \in FrameFailures \cup {"none"} :
          /\ clock' = now
          /\ last_frame' = LastFrameUpdate(last_frame, now)
          /\ frames' = frames + 1
          /\ frame' = [iter     |-> iter,
                       log      |-> FrameLog(fail),
                       failedAt |-> fail,
                       now      |-> now,
                       prev     |-> frame.now,
                       delta    |-> now - last_frame,
                       swapGen  |-> swap_chain.gen,
                       resizes  |-> resizesSeen,
                       upToDate |-> swap_chain.desc = sc_desc]
          /\ control_flow' = StickyExit(control_flow, TopControlFlow)
          /\ loopState' = AfterFrame(fail, control_flow')
          /\ iter' = IF fail = "none" THEN iter + 1 ELSE iter
          /\ IF fail = "none"
                THEN HandleEvent(EventsClearedEv)
                ELSE UNCHANGED <<forwarded, lastForwarded>>
    /\ lastEvent' = EventsClearedEv
    /\ steps' = steps + 1
    /\ FrameKeeps
    /\ UNCHANGED <<osVars, queue>>

Next ==
    \/ OsResize
    \/ OsScaleChange
    \/ OsHotkeyDown
    \/ OsHotkeyRepeat
    \/ OsHotkeyUp
    \/ OsOtherInput
    \/ OsClose
    \/ HandleResized
    \/ HandleHotkey
    \/ HandleClose
    \/ HandleOther
    \/ EventsCleared

Spec == Init /\ [][Next]_vars

\* The runs that include a failed startup call.
SpecStartup == InitStartup /\ [][Next]_vars

\* event_loop.run keeps calling the closure: with every pending event, and
\* with EventsCleared once none is pending.
LiveSpec ==
    /\ Spec
    /\ WF_vars(HandleResized)
    /\ WF_vars(HandleHotkey)
    /\ WF_vars(HandleClose)
    /\ WF_vars(HandleOther)
    /\ WF_vars(EventsCleared)

TypeOK ==
    /\ winPhysical \in PhysicalSizes
    /\ winScale \in Scales
    /\ hotkeyHeld \in BOOLEAN
    /\ Len(queue) <= MaxQueue
    /\ hidpi_factor \in Scales
    /\ overlay_clickable \in BOOLEAN
    /\ control_flow \in {"Poll", "Exit"}
    /\ loopState \in {"running", "exited", "panicked"}
    /\ clock \in Times
    /\ last_frame \in Times
    /\ steps \in 0..MaxSteps

\* ------------------------------------------------------------ properties
\* Frame step f reached x.
Reached(f, x) == \E i \in 1..Len(f.log) : f.log[i] = x

\* The steps a submission depends on, and the submission.
IsSubmitStep(x) ==
    x \in {"get_next_texture", "prepare_frame", "build_ui", "render", "submit"}

\* The steps whose order the frame contract fixes.
IsOrderedStep(x) ==
    x \in {"tick", "get_next_texture", "build_ui", "render", "submit"}

\* C1: after n hotkey key-downs have been handled, whatever else was
\* handled in between, the mode is Clickable iff n is odd.
C1_ModeIsParityOfPresses == overlay_clickable <=> (presses % 2 = 1)

\* Three presses interleaved with other events leave the overlay clickable.
C1_Witness == presses = 3 /\ steps > presses /\ overlay_clickable

\* C2: between a press edge and the matching release the mode changes once
\* and the adapter is called once, however many repeat key-downs arrive.
C2_HeldKeyTogglesOnce == togglesSinceEdge <= 1

\* C3: every hotkey press makes exactly one adapter call, for the mode being
\* entered: make-clickable on odd presses, make-click-through on even ones.
C3_OneAdapterCallPerPress ==
    /\ Len(adapterCalls) = presses
    /\ \A i \in 1..Len(adapterCalls) :
          adapterCalls[i] = IF i % 2 = 1 THEN "make_window_overlay_clickable"
                                         ELSE "make_window_overlay_clickthrough"
    /\ presses > 0 =>
          (overlay_clickable <=>
             adapterCalls[presses] = "make_window_overlay_clickable")

\* Two presses: clickable, then click-through again.
C3_Witness ==
    /\ presses = 2
    /\ adapterCalls = <<"make_window_overlay_clickable",
                        "make_window_overlay_clickthrough">>
    /\ ~overlay_clickable

\* C4: once a Resized event has been handled, the descriptor has the
\* physical width and height that event announced.
C4_ConfigMatchesResizeEvent ==
    resizesSeen > 0 =>
        /\ sc_desc.width = lastResize.width
        /\ sc_desc.height = lastResize.height

\* C5: a frame is acquired only from a swap chain created after the last
\* resize event the loop has observed, from the current descriptor.
C5_ResizeBeforeAcquire ==
    Reached(frame, "get_next_texture") =>
        /\ frame.swapGen = frame.resizes
        /\ frame.upToDate

\* A frame acquired after two resizes.
C5_Witness ==
    /\ Reached(frame, "get_next_texture")
    /\ frame.resizes = 2

\* C6: after CloseRequested was handled in iteration k no frame step runs in
\* a later iteration, and no later event takes the exit request back.
C6_NoFrameAfterClose ==
    closeIter # -1 =>
        /\ frame.iter <= closeIter
        /\ control_flow = "Exit"
        /\ iter <= closeIter + 1
        /\ iter = closeIter + 1 => loopState = "exited"

\* The loop has exited after a close that was followed by other events.
C6_Witness ==
    /\ closeIter = 1
    /\ loopState = "exited"
    /\ steps >= closeStep + 2

\* C7: a failing frame step does not end the loop.
C7_FrameFailureDoesNotTerminate ==
    frame.failedAt # "none" => loopState = "running"

\* C8: a frame step in which a call failed submits nothing; a submission
\* follows the acquisition, preparation, UI build and render of its frame.
C8_NoPartialSubmission ==
    /\ frame.failedAt # "none" => ~Reached(frame, "submit")
    /\ Reached(frame, "submit") =>
          /\ frame.failedAt = "none"
          /\ LET done == SelectSeq(frame.log, IsSubmitStep)
             IN  /\ Len(done) = 5
                 /\ done[5] = "submit"
                 /\ \A i \in 1..4 : done[i] # "submit"
                 /\ \A i, j \in 1..4 : i # j => done[i] # done[j]

\* A frame step failed in render, after one complete frame.
C8_Witness == frames = 2 /\ frame.failedAt = "render"

C10_FrameOrder ==
    Reached(frame, "submit") =>
        SelectSeq(frame.log, IsOrderedStep) =
            <<"tick", "get_next_texture", "build_ui", "render", "submit">>

\* A complete frame in the second iteration.
C10_Witness == frame.iter = 1 /\ frame.failedAt = "none"

\* C11: every event the closure is called with is passed on to
\* platform.handle_event exactly once, after the arm for it has run.
C11_EveryEventForwardedOnce ==
    /\ forwarded = steps
    /\ lastForwarded = lastEvent

\* C12: the mode changes, and an adapter call is made, only in the step that
\* handles a key-down of Escape with Shift held, and always both together.
C12_OnlyHotkeyToggles ==
    [][/\ (overlay_clickable' # overlay_clickable \/ adapterCalls' # adapterCalls)
            => /\ queue # <<>>
               /\ lastEvent' = Head(queue)
               /\ lastEvent'.kind = "Key"
               /\ lastEvent'.state = "Pressed"
               /\ lastEvent'.key = "Escape"
               /\ lastEvent'.shift
       /\ (overlay_clickable' # overlay_clickable)
            <=> (Len(adapterCalls') = Len(adapterCalls) + 1)
       /\ Len(adapterCalls') \in {Len(adapterCalls), Len(adapterCalls) + 1}
      ]_vars

\* After one toggle, Escape without Shift has been handled and the overlay
\* is still clickable, with one adapter call made.
C12_Witness ==
    /\ presses = 1
    /\ overlay_clickable
    /\ Len(adapterCalls) = 1
    /\ lastEvent = KeyEv("Pressed", "Escape", FALSE, FALSE)

\* C13: a frame step, complete or failed, leaves the tracked size, the
\* descriptor, the swap chain's descriptor and the overlay mode as they were;
\* of the closure's own state only last_frame is assigned.
C13_FrameStepKeepsState ==
    [][frames' # frames =>
          /\ size' = size
          /\ sc_desc' = sc_desc
          /\ swap_chain' = swap_chain
          /\ overlay_clickable' = overlay_clickable
          /\ hidpi_factor' = hidpi_factor
          /\ control_flow' = control_flow
      ]_vars

\* A failed frame step after a resize and a toggle, both still in place.
C13_Witness ==
    /\ frame.failedAt # "none"
    /\ frame.resizes = 1
    /\ swap_chain.gen = 1
    /\ overlay_clickable

\* C14: only EventsCleared starts a frame step, one per signal, and only a
\* frame step assigns last_frame, once, never to an earlier instant.
C14_OneFramePerEventsCleared ==
    [][/\ (frames' # frames \/ frame' # frame \/ last_frame' # last_frame)
            => /\ lastEvent' = EventsClearedEv
               /\ steps' = steps + 1
       /\ (steps' # steps /\ lastEvent' = EventsClearedEv)
            => /\ queue = <<>>
               /\ frames' = frames + 1
               /\ frame'.log[1] = "tick"
               /\ \A i \in 2..Len(frame'.log) : frame'.log[i] # "tick"
               /\ last_frame' = frame'.now
       /\ (steps' # steps /\ lastEvent' # EventsClearedEv)
            => /\ frames' = frames
               /\ frame' = frame
               /\ last_frame' = last_frame
       /\ last_frame' >= last_frame
      ]_vars

\* A second frame at a later instant, with a resize handled in between.
C14_Witness ==
    /\ frames = 2
    /\ resizesSeen = 1
    /\ last_frame > frame.prev
    /\ lastEvent = EventsClearedEv

\* C15: the descriptor, and the descriptor the live swap chain was created
\* from, always have the usage, format and presentation mode of the
\* descriptor built at startup; resizes change width and height only.
C15_FormatAndModeFixed ==
    LET initial == InitialSwapChainDescriptor(size)
    IN  \A d \in {sc_desc, swap_chain.desc} :
            /\ d.usage = initial.usage
            /\ d.format = initial.format
            /\ d.present_mode = initial.present_mode
            /\ DOMAIN d = DOMAIN initial

\* Two resizes handled, the second swap chain live.
C15_Witness ==
    /\ resizesSeen = 2
    /\ swap_chain.gen = 2
    /\ swap_chain.desc = sc_desc

\* C16: when a startup call failed, the process ended before the loop
\* started: no event is processed and no frame step runs.
C16_StartupFailureIsFatal ==
    startup # "none" => steps = 0 /\ frames = 0

\* C17: once CloseRequested has been handled the exit request stays set and
\* the loop reaches its exited state.
C17_CloseLeadsToExit ==
    /\ [](closeIter # -1 => control_flow = "Exit")
    /\ (closeIter # -1) ~> (loopState = "exited")

C19_ModeAgreesWithWindow == osClickThrough <=> ~overlay_clickable

====
